---- MODULE Spec2Model ----
(***************************************************************************)
(* Product REST API: router (validation chains), request handlers over    *)
(* the ORM, and the boot-time database connector.                         *)
(*                                                                         *)
(* Every handler is an async function: it runs to its next `await` and    *)
(* the awaited query is executed by the database at some later moment,    *)
(* so steps of different requests interleave at the awaits.               *)
(*                                                                         *)
(* Strings that are validated or parsed (path id, name, price) are        *)
(* sequences of one-character strings, so that the validators and the     *)
(* conversions work on the characters.                                    *)
(***************************************************************************)
EXTENDS Integers, Sequences, FiniteSets, Bags, TLC

\* ------------------------------------------------------------- bounds
\* Requests received in one run.
MaxReq == 3
\* Requests being handled at the same time.
MaxInFlight == 2
\* Largest id a request body carries in its id field.
MaxBodyId == 2

\* --------------------------------------------------- strings, validators

Digit == {"0", "1", "2", "3", "4", "5", "6", "7", "8", "9"}

DigitVal(c) ==
    CASE c = "0" -> 0 [] c = "1" -> 1 [] c = "2" -> 2 [] c = "3" -> 3
      [] c = "4" -> 4 [] c = "5" -> 5 [] c = "6" -> 6 [] c = "7" -> 7
      [] c = "8" -> 8 [] c = "9" -> 9

IsDigits(s) == Len(s) > 0 /\ \A i \in 1..Len(s) : s[i] \in Digit

Unsigned(s) == IF Len(s) > 0 /\ s[1] \in {"+", "-"} THEN Tail(s) ELSE s

\* param('id').isInt(): an optional sign, then digits (leading zeroes allowed).
IsInt(s) == IsDigits(Unsigned(s))

\* body('price').isNumeric(): an optional sign, then digits. (The fraction the
\* validator also accepts needs a "." input, which the inputs below do not have.)
IsNumeric(s) == IsDigits(Unsigned(s))

\* .notEmpty(): the field, as a string, has at least one character; a missing
\* field is the empty string.
NotEmpty(s) == Len(s) > 0

\* body('availability').isBoolean(): the field, as a string, is a boolean word.
IsBoolean(w) == w \in {"true", "false", "1", "0"}

RECURSIVE DigitsVal(_)
DigitsVal(s) ==
    IF s = <<>> THEN 0
    ELSE 10 * DigitsVal(SubSeq(s, 1, Len(s) - 1)) + DigitVal(s[Len(s)])

\* The number a numeric string denotes: what `value > 0` compares and what the
\* database stores for price, and the integer the database compares a path id as.
ToNumber(s) ==
    IF Len(s) > 0 /\ s[1] = "-" THEN 0 - DigitsVal(Tail(s))
    ELSE DigitsVal(Unsigned(s))

\* Mutant of PricePositive: the comparison accepts zero.
PricePositive_Zero(s) == IsNumeric(s) /\ ToNumber(s) >= 0

\* .custom(value => value > 0)
PricePositive(s) == IsNumeric(s) /\ ToNumber(s) > 0

\* The boolean a boolean word is stored as.
ToBool(w) == w \in {"true", "1"}

\* ------------------------------------------------------------- inputs

\* Path ids: a decimal id, the same id with a leading zero, and a non-integer.
PathInputs == {<<"1">>, <<"0", "1">>, <<"x">>}

NoBody == [id |-> {}, name |-> <<>>, price |-> <<>>, availability |-> ""]

Body(id, name, price, availability) ==
    [id |-> id, name |-> name, price |-> price, availability |-> availability]

Req(op, path, body) == [op |-> op, path |-> path, body |-> body]

\* POST: bodies that pass the rules, with and without an id field and an
\* availability field.
PostValid ==
    {Body({}, <<"a">>, <<"1">>, ""), Body({}, <<"b">>, <<"2">>, "false")}
    \cup {Body({k}, <<"a">>, <<"1">>, "") : k \in 1..MaxBodyId}

\* PUT: bodies that pass the rules, one of them with an id field.
PutValid ==
    {Body({MaxBodyId}, <<"b">>, <<"1">>, "true"), Body({}, <<"a">>, <<"2">>, "true"),
     Body({}, <<"a">>, <<"1">>, "false")}

\* Bodies that break the name rule, each price rule, the availability rule.
BadName == Body({}, <<>>, <<"1">>, "true")
BadPrices == {Body({}, <<"a">>, p, "true") : p \in {<<>>, <<"x">>, <<"0">>, <<"-", "1">>}}
BadAvailability == Body({}, <<"a">>, <<"1">>, "maybe")

\* The requests a client sends: every operation with an integer path id (and a
\* body that passes its rules), and requests that break one rule or several.
Requests ==
    {Req(op, path, NoBody) : op \in {"GET", "PATCH", "DELETE"}, path \in PathInputs}
    \cup {Req("POST", <<>>, body) : body \in PostValid \cup {BadName} \cup BadPrices}
    \cup {Req("PUT", path, body) : path \in PathInputs, body \in PutValid}
    \cup {Req("PUT", <<"1">>, body) : body \in {BadName, BadAvailability} \cup BadPrices}
    \cup {Req("PUT", <<"x">>, BadName)}

\* ------------------------------------------------------------- state

VARIABLES
    table,      \* the products table: a set of rows [id, name, price, availability]
    seq,        \* the next value of the id sequence of the table
    reqs,       \* the bag of requests in flight, each suspended at an await
    resp,       \* the response the last step sent, with its request (NoResp: none)
    nreq,       \* requests received so far
    boot,       \* connectDB: [pc, auth, synced, log, threw]
    used,       \* history: every id a row has ever had
    deleted,    \* history: ids whose DELETE was answered 200
    lastWrite   \* history: per stored id, the UPDATE that wrote the row last

vars == <<table, seq, reqs, resp, nreq, boot, used, deleted, lastWrite>>

\* A request: its input (op, path, body), where its handler is suspended (pc),
\* the instance findByPk gave it (inst, none or one row), and history: write
\* calls made on the ORM (calls), statements sent to the database (stmts), the
\* handler was called (ran), a DELETE of its id had been answered 200 when it
\* arrived (afterDel), and the operation that wrote its row after it read it
\* (stale, "" while the instance is current).
NoRequest ==
    [pc |-> "", op |-> "", path |-> <<>>, body |-> NoBody, inst |-> {},
     calls |-> 0, stmts |-> 0, ran |-> FALSE, afterDel |-> FALSE, stale |-> ""]

NoResp == [req |-> NoRequest, status |-> 0, data |-> {}, error |-> FALSE]

InFlight == BagToSet(reqs)

Ids(t) == {row.id : row \in t}

RowsById(t, k) == {row \in t : row.id = k}

\* ------------------------------------------------ validation (router.ts)

IdRule(path) ==
    IF IsInt(path) THEN {} ELSE {[field |-> "id", message |-> "ID no valido"]}

NameRule(body) ==
    IF NotEmpty(body.name) THEN {}
    ELSE {[field |-> "name", message |-> "El campo nombre no puede estar vacio"]}

PriceRule(body) ==
    (IF IsNumeric(body.price) THEN {}
     ELSE {[field |-> "price", message |-> "Valor no valido"]})
    \cup (IF NotEmpty(body.price) THEN {}
          ELSE {[field |-> "price", message |-> "El campo precio no puede estar vacio"]})
    \cup (IF PricePositive(body.price) THEN {}
          ELSE {[field |-> "price", message |-> "Precio no valido"]})

AvailabilityRule(body) ==
    IF IsBoolean(body.availability) THEN {}
    ELSE {[field |-> "availability", message |-> "Valor de disponibilidad no valido"]}

\* router.get('/:id'), router.patch('/:id'), router.delete('/:id')
ChainId(path, body) == IdRule(path)

\* router.post('/')
ChainPost(path, body) == NameRule(body) \cup PriceRule(body)

\* Mutant of ChainPut: the availability rule is missing.
ChainPut_NoAvailability(path, body) ==
    IdRule(path) \cup NameRule(body) \cup PriceRule(body)

\* router.put('/:id')
ChainPut(path, body) ==
    IdRule(path) \cup NameRule(body) \cup PriceRule(body) \cup AvailabilityRule(body)

ValidationErrors(op, path, body) ==
    IF op = "POST" THEN ChainPost(path, body)
    ELSE IF op = "PUT" THEN ChainPut(path, body)
    ELSE ChainId(path, body)

\* handleInputErrors: TRUE when the request goes on to its handler; with any
\* error collected it is answered 400 and the handler is not called.
handleInputErrors(errors) == errors = {}

\* --------------------------------------------------- the ORM and the table

\* Product.findByPk(id): the rows with that primary key (none or one); the
\* database compares the path id as an integer.
findByPk(t, path) == RowsById(t, ToNumber(path))

\* availability of a new product whose body has no availability field.
DefaultAvailability == TRUE

\* Product.create(req.body): the row built from the body, every attribute the
\* body carries included, the id too; an absent id is drawn from the sequence.
BuildRow(body, next) ==
    [id |-> IF body.id = {} THEN next ELSE CHOOSE k \in body.id : TRUE,
     name |-> body.name,
     price |-> ToNumber(body.price),
     availability |-> IF body.availability = "" THEN DefaultAvailability
                      ELSE ToBool(body.availability)]

\* INSERT: the primary key rejects a row whose id is stored already.
InsertOk(t, row) == row.id \notin Ids(t)

\* Mutant of OrmSet: the id of the body is assigned too.
OrmSet_BodyId(inst, body) ==
    [id |-> IF body.id = {} THEN inst.id ELSE CHOOSE k \in body.id : TRUE,
     name |-> body.name,
     price |-> ToNumber(body.price),
     availability |-> ToBool(body.availability)]

\* product.update(req.body), the assignment: every attribute of the body is set
\* on the instance, except the primary key of an instance read from the table.
OrmSet(inst, body) ==
    [id |-> inst.id,
     name |-> body.name,
     price |-> ToNumber(body.price),
     availability |-> ToBool(body.availability)]

\* Mutant of UpdateRows: only the attributes the assignment changed are written.
UpdateRows_Changed(t, inst, new) ==
    {IF row.id = inst.id
       THEN [id |-> new.id,
             name |-> IF new.name # inst.name THEN new.name ELSE row.name,
             price |-> IF new.price # inst.price THEN new.price ELSE row.price,
             availability |-> IF new.availability # inst.availability
                              THEN new.availability ELSE row.availability]
       ELSE row : row \in t}

\* product.update(req.body), the statement: UPDATE ... SET every attribute the
\* body carries, from the instance, WHERE id = the id the instance was read
\* with. A row deleted meanwhile is not written.
UpdateRows(t, inst, new) ==
    {IF row.id = inst.id THEN new ELSE row : row \in t}

\* Mutant of Toggled: availability is switched off, not negated.
Toggled_Off(inst) == [inst EXCEPT !.availability = FALSE]

\* product.availability = !product.dataValues.availability
Toggled(inst) == [inst EXCEPT !.availability = ~inst.availability]

\* product.save() after the assignment: UPDATE ... SET availability WHERE id.
SaveAvailability(t, new) ==
    {IF row.id = new.id THEN [row EXCEPT !.availability = new.availability]
     ELSE row : row \in t}

\* product.destroy(): DELETE ... WHERE id.
DestroyRow(t, inst) == {row \in t : row.id # inst.id}

The(S) == CHOOSE x \in S : TRUE

\* History: the UPDATE of request r is the last write on row k, which stored
\* `before` until then. An INSERT or a DELETE of k clears the entry.
Cleared(lw, k) == {w \in lw : w.id # k}

\* `run` counts the toggles in a row that each read the product after the
\* write before it: 0 for a toggle whose instance was stale and for a PUT.
Written(lw, k, r, before) ==
    LET prev == {w \in lw : w.id = k /\ w.op = "PATCH"}
        run == IF r.op # "PATCH" \/ r.stale # "" THEN 0
               ELSE IF prev = {} THEN 1 ELSE The(prev).run + 1
    IN Cleared(lw, k)
       \cup {[id |-> k, op |-> r.op, body |-> r.body, stale |-> r.stale,
              was |-> before.availability, run |-> run]}

\* A write on row k by operation op makes the instances read from it stale.
Stale(r, k, op) ==
    IF r.inst # {} /\ The(r.inst).id = k /\ r.stale = ""
    THEN [r EXCEPT !.stale = op] ELSE r

\* The requests in flight once r has stepped (to `next`, or out when it is
\* answered) and, when it wrote row k, the others hold stale instances of it.
Others(r) == reqs (-) SetToBag({r})

AllStale(B, k, op) ==
    LET F(x) == Stale(x, k, op) IN BagOfAll(F, B)

Respond(r, status, data, error) ==
    [req |-> r, status |-> status, data |-> data, error |-> error]

\* ------------------------------------------------------------- Init

ErrorMessage == "Hubo un error al conectarse a la base de datos"

\* The table outlives the server: at start it is empty, or holds a product an
\* earlier run created (its id drawn from the sequence).
Stored == [id |-> 1, name |-> <<"a">>, price |-> 1, availability |-> TRUE]

Init ==
    /\ table \in {{}, {Stored}}
    /\ seq = Cardinality(table) + 1
    /\ reqs = EmptyBag
    /\ resp = NoResp
    /\ nreq = 0
    /\ boot = [pc |-> "authenticate", auth |-> "pending", synced |-> FALSE,
               log |-> <<>>, threw |-> FALSE]
    /\ used = Ids(table)
    /\ deleted = {}
    /\ lastWrite = {}

\* ------------------------------------------------- requests (router.ts)

FirstPc(op) == IF op = "POST" THEN "create" ELSE "find"

\* A request arrives: its validation chain runs, handleInputErrors answers 400
\* or calls the handler, which runs to its first await (the query is sent).
Receive(op, path, body) ==
    /\ nreq < MaxReq
    /\ BagCardinality(reqs) < MaxInFlight
    /\ nreq' = nreq + 1
    /\ LET r == [NoRequest EXCEPT !.op = op, !.path = path, !.body = body]
       IN IF handleInputErrors(ValidationErrors(op, path, body))
          THEN /\ reqs' = reqs (+) SetToBag({
                     [r EXCEPT !.pc = FirstPc(op), !.ran = TRUE,
                               !.afterDel = (IsInt(path) /\ ToNumber(path) \in deleted)]})
               /\ resp' = NoResp
          ELSE /\ resp' = Respond(r, 400, {}, TRUE)
               /\ UNCHANGED reqs
    /\ UNCHANGED <<table, seq, boot, used, deleted, lastWrite>>

\* --------------------------------------------- handlers (handlers/product.ts)

\* Mutant of NotFound: the missing product is answered 200.
NotFound_Ok(r) == Respond(r, 200, {}, FALSE)

\* The 404 answer of the four handlers that look a product up.
NotFound(r) == Respond(r, 404, {}, TRUE)

getProductById(r) ==
    /\ r.pc = "find" /\ r.op = "GET"
    /\ LET product == findByPk(table, r.path)
       IN resp' = IF product = {} THEN NotFound(r) ELSE Respond(r, 200, product, FALSE)
    /\ reqs' = Others(r)
    /\ UNCHANGED <<table, seq, nreq, boot, used, deleted, lastWrite>>

\* Product.create(req.body) executes; res.status(201). A rejected INSERT is not
\* caught by the handler: the request ends on the runtime's error path.
createProduct(r) ==
    /\ r.pc = "create"
    /\ LET q == [r EXCEPT !.calls = @ + 1, !.stmts = @ + 1]
           row == BuildRow(r.body, seq)
       IN /\ seq' = IF r.body.id = {} THEN seq + 1 ELSE seq
          /\ IF InsertOk(table, row)
             THEN /\ table' = table \cup {row}
                  /\ used' = used \cup {row.id}
                  /\ lastWrite' = Cleared(lastWrite, row.id)
                  /\ resp' = Respond(q, 201, {row}, FALSE)
                  /\ reqs' = AllStale(Others(r), row.id, "POST")
             ELSE /\ resp' = Respond(q, 500, {}, TRUE)
                  /\ reqs' = Others(r)
                  /\ UNCHANGED <<table, used, lastWrite>>
    /\ UNCHANGED <<nreq, boot, deleted>>

\* findByPk of updateProduct, updateAvailability and deleteProduct.
Find(r, next) ==
    /\ r.pc = "find"
    /\ LET product == findByPk(table, r.path)
       IN IF product = {}
          THEN /\ resp' = NotFound(r)
               /\ reqs' = Others(r)
          ELSE /\ resp' = NoResp
               /\ reqs' = Others(r) (+) SetToBag({
                     [r EXCEPT !.pc = next, !.inst = product, !.stale = ""]})
    /\ UNCHANGED <<table, seq, nreq, boot, used, deleted, lastWrite>>

updateProduct_find(r) ==
    /\ r.op = "PUT"
    /\ Find(r, "update")

\* await product.update(req.body): the statement is sent when the assignment
\* changed the instance.
updateProduct_update(r) ==
    /\ r.pc = "update"
    /\ LET inst == The(r.inst)
           new == OrmSet(inst, r.body)
           sent == new # inst
           q == [r EXCEPT !.calls = @ + 1, !.stmts = IF sent THEN @ + 1 ELSE @,
                          !.inst = {new}, !.pc = "save"]
           hit == sent /\ RowsById(table, inst.id) # {}
       IN /\ table' = IF sent THEN UpdateRows(table, inst, new) ELSE table
          /\ lastWrite' = IF hit
                          THEN Written(lastWrite, inst.id, r,
                                       The(RowsById(table, inst.id)))
                          ELSE lastWrite
          /\ reqs' = (IF hit THEN AllStale(Others(r), inst.id, "PUT") ELSE Others(r))
                     (+) SetToBag({q})
          /\ resp' = NoResp
    /\ UNCHANGED <<seq, nreq, boot, used, deleted>>

\* await product.save(): the instance has no changed attribute left, no
\* statement is sent; res.json({data: product}).
updateProduct_save(r) ==
    /\ r.pc = "save" /\ r.op = "PUT"
    /\ resp' = Respond([r EXCEPT !.calls = @ + 1], 200, r.inst, FALSE)
    /\ reqs' = Others(r)
    /\ UNCHANGED <<table, seq, nreq, boot, used, deleted, lastWrite>>

updateAvailability_find(r) ==
    /\ r.op = "PATCH"
    /\ Find(r, "save")

\* product.availability = !...; await product.save(); res.json({data: product})
updateAvailability_save(r) ==
    /\ r.pc = "save" /\ r.op = "PATCH"
    /\ LET inst == The(r.inst)
           new == Toggled(inst)
           q == [r EXCEPT !.calls = @ + 1, !.stmts = @ + 1]
           hit == RowsById(table, inst.id) # {}
       IN /\ table' = SaveAvailability(table, new)
          /\ lastWrite' = IF hit
                          THEN Written(lastWrite, inst.id, r,
                                       The(RowsById(table, inst.id)))
                          ELSE lastWrite
          /\ resp' = Respond(q, 200, {new}, FALSE)
          /\ reqs' = IF hit THEN AllStale(Others(r), inst.id, "PATCH") ELSE Others(r)
    /\ UNCHANGED <<seq, nreq, boot, used, deleted>>

deleteProduct_find(r) ==
    /\ r.op = "DELETE"
    /\ Find(r, "destroy")

\* await product.destroy(); res.json({data: 'Producto Eliminado'})
deleteProduct_destroy(r) ==
    /\ r.pc = "destroy"
    /\ LET inst == The(r.inst)
           q == [r EXCEPT !.calls = @ + 1, !.stmts = @ + 1]
       IN /\ table' = DestroyRow(table, inst)
          /\ lastWrite' = Cleared(lastWrite, inst.id)
          /\ deleted' = deleted \cup {inst.id}
          /\ resp' = Respond(q, 200, {}, FALSE)
          /\ reqs' = AllStale(Others(r), inst.id, "DELETE")
    /\ UNCHANGED <<seq, nreq, boot, used>>

\* ------------------------------------------------- connectDB (server.ts)

\* colors.red.bold(text): the text between the escape codes of the styles.
RedBold(text) == <<"\\x1b[31m", "\\x1b[1m", text, "\\x1b[22m", "\\x1b[39m">>

\* Mutant of Catch: the error is thrown on, nothing is logged.
Catch_Rethrow(b) == [b EXCEPT !.pc = "done", !.threw = TRUE]

\* The catch block of connectDB: console.log, and the function returns.
Catch(b) == [b EXCEPT !.pc = "done", !.log = Append(@, RedBold(ErrorMessage))]

\* await db.authenticate() resolved: db.sync() is called, connectDB returns.
connectDB_authenticated ==
    /\ boot.pc = "authenticate"
    /\ boot' = [boot EXCEPT !.pc = "done", !.auth = "ok", !.synced = TRUE]
    /\ resp' = NoResp
    /\ UNCHANGED <<table, seq, reqs, nreq, used, deleted, lastWrite>>

\* await db.authenticate() rejected: the catch block runs.
connectDB_failed ==
    /\ boot.pc = "authenticate"
    /\ boot' = Catch([boot EXCEPT !.auth = "failed"])
    /\ resp' = NoResp
    /\ UNCHANGED <<table, seq, reqs, nreq, used, deleted, lastWrite>>

\* The steps of request handling.
ApiNext ==
    \/ \E q \in Requests : Receive(q.op, q.path, q.body)
    \/ \E r \in InFlight : getProductById(r)
    \/ \E r \in InFlight : createProduct(r)
    \/ \E r \in InFlight : updateProduct_find(r)
    \/ \E r \in InFlight : updateProduct_update(r)
    \/ \E r \in InFlight : updateProduct_save(r)
    \/ \E r \in InFlight : updateAvailability_find(r)
    \/ \E r \in InFlight : updateAvailability_save(r)
    \/ \E r \in InFlight : deleteProduct_find(r)
    \/ \E r \in InFlight : deleteProduct_destroy(r)

\* The steps of connectDB.
BootNext ==
    \/ connectDB_authenticated
    \/ connectDB_failed

Next == ApiNext \/ BootNext

\* The server: requests are handled while connectDB is still running.
Spec == Init /\ [][Next]_vars

\* Request handling alone. No handler reads `boot` and connectDB writes nothing
\* else, so the requests behave under Spec exactly as they do here.
ApiSpec == Init /\ [][ApiNext]_vars

\* ------------------------------------------------------------- claims

RowOf(t, k) == The(RowsById(t, k))

\* A request that breaks a rule of its operation: a non-integer path id; an
\* empty name; a price that is not numeric, empty, or not above zero; on a full
\* update, an availability that is not a boolean.
Violates(q) ==
    \/ q.op \in {"GET", "PUT", "PATCH", "DELETE"} /\ ~IsInt(q.path)
    \/ q.op \in {"POST", "PUT"}
       /\ (\/ Len(q.body.name) = 0
           \/ Len(q.body.price) = 0
           \/ ~IsNumeric(q.body.price)
           \/ ToNumber(q.body.price) <= 0)
    \/ q.op = "PUT" /\ ~IsBoolean(q.body.availability)

\* C1: a request that breaks a rule of its validation chain is answered 400,
\* its handler is never executed (no such request is ever in flight in a
\* handler), and the step that answers it leaves the table as it was.
C1_Rejected ==
    [][/\ \A r \in BagToSet(reqs') : ~Violates(r)
       /\ (resp' # NoResp /\ Violates(resp'.req))
            => (resp'.status = 400 /\ ~resp'.req.ran /\ table' = table)]_vars

C1_Witness ==
    /\ resp.status = 400 /\ Violates(resp.req)
    /\ resp.req.op = "PUT" /\ ~IsBoolean(resp.req.body.availability)
    /\ table # {}

\* C2: GET, PATCH and DELETE with an integer id that no stored product has are
\* answered 404 with an error field by their lookup, and the table is unchanged.
C2_NotFound ==
    [][(/\ resp' # NoResp
        /\ resp'.req.op \in {"GET", "PATCH", "DELETE"}
        /\ IsInt(resp'.req.path)
        /\ resp'.req.inst = {}
        /\ RowsById(table, ToNumber(resp'.req.path)) = {})
         => (resp'.status = 404 /\ resp'.error /\ resp'.data = {} /\ table' = table)]_vars

C2_Witness ==
    /\ resp.status = 404 /\ resp.error
    /\ resp.req.op = "PATCH"
    /\ table # {}

\* C3 (as claimed): the record a create request returns has a positive id that
\* no product, stored or deleted, ever had.
C3_FreshId ==
    [][(resp'.req.op = "POST" /\ resp'.status = 201)
         => \A row \in resp'.data : row.id > 0 /\ row.id \notin used]_vars

\* C4: every stored product has a non-empty name and a price above zero.
C4_NamePrice == \A row \in table : Len(row.name) > 0 /\ row.price > 0

C4_Witness ==
    /\ \E w \in lastWrite : w.op = "PUT" /\ w.stale # ""
    /\ Cardinality(table) >= 2

\* The toggle answered in this step wrote row k, whose last write was a toggle.
SecondToggle(w) ==
    /\ resp'.req.op = "PATCH" /\ resp'.status = 200
    /\ w.id = ToNumber(resp'.req.path) /\ w.op = "PATCH"

ToggledBack(w) ==
    LET before == RowOf(table, w.id)
        after == RowOf(table', w.id)
    IN /\ after.availability = w.was
       /\ \A row \in resp'.data : row.availability = w.was
       /\ after.name = before.name /\ after.price = before.price

\* C5 (as claimed): two toggles of a stored product with no other write to it in
\* between leave availability at its value before the first; the second
\* response reports that value; name and price are unchanged.
C5_ToggleTwice ==
    [][\A w \in lastWrite : SecondToggle(w) => ToggledBack(w)]_vars

\* C5 (amended): the same, for two toggles that each read the product after the
\* write before it reached the database.
C5_ToggleTwiceInTurn ==
    [][\A w \in lastWrite :
         (SecondToggle(w) /\ w.run >= 1 /\ resp'.req.stale = "") => ToggledBack(w)]_vars

C5_Witness ==
    /\ resp.req.op = "PATCH" /\ resp.status = 200 /\ resp.req.stale = ""
    /\ \E w \in lastWrite :
         /\ w.id = ToNumber(resp.req.path) /\ w.op = "PATCH" /\ w.run = 2
         /\ RowOf(table, w.id).availability # w.was

\* C6 (as claimed): a GET of an id received after a DELETE of that id was
\* answered 200 is answered 404.
C6_Gone == (resp.req.op = "GET" /\ resp.req.afterDel) => resp.status = 404

\* C7: when db.authenticate() fails, connectDB returns without throwing, the
\* message is logged, and db.sync() is not called.
C7_BootFailure ==
    boot.auth = "failed"
      => /\ boot.pc = "done"
         /\ ~boot.threw
         /\ ~boot.synced
         /\ \E i \in 1..Len(boot.log) :
              \E j \in 1..Len(boot.log[i]) : boot.log[i][j] = ErrorMessage

\* connectDB has returned after the failure and the server answers a request.
C7_Witness == boot.auth = "failed" /\ boot.pc = "done" /\ resp.status = 400

\* C8: no two stored products share an id; a PUT or a PATCH never changes the
\* set of stored ids (only an INSERT and a DELETE do), whatever id the body
\* carries; the record a PUT or a PATCH returns has the path id.
C8_IdImmutable ==
    [][/\ Cardinality(Ids(table')) = Cardinality(table')
       /\ Ids(table') # Ids(table) => resp'.req.op \in {"POST", "DELETE"}
       /\ (resp'.status = 200 /\ resp'.req.op \in {"PUT", "PATCH"})
            => \A row \in resp'.data : row.id = ToNumber(resp'.req.path)]_vars

C8_Witness ==
    /\ resp.status = 200 /\ resp.req.op = "PUT"
    /\ resp.req.body.id # {} /\ ToNumber(resp.req.path) \notin resp.req.body.id
    /\ \E row \in table :
         row.id = ToNumber(resp.req.path) /\ row.name = resp.req.body.name

\* C9: a row whose last write is the UPDATE of a PUT holds the name, price and
\* availability of that request's body, all three, also when the PUT read the
\* row before another PUT wrote it.
C9_LastWriteWins ==
    \A w \in lastWrite :
        w.op = "PUT"
          => \E row \in table :
               /\ row.id = w.id
               /\ row.name = w.body.name
               /\ row.price = ToNumber(w.body.price)
               /\ row.availability = ToBool(w.body.availability)

C9_Witness ==
    /\ reqs = EmptyBag
    /\ resp.req.op = "PUT" /\ resp.status = 200
    /\ \E w \in lastWrite : w.op = "PUT" /\ w.stale = "PUT"

\* C10 (as claimed): a create, full update, toggle or delete that succeeds has
\* made exactly one write call on the persistence layer; one answered 404, none.
C10_OneWrite ==
    /\ (resp.req.op \in {"POST", "PUT", "PATCH", "DELETE"} /\ resp.status \in {200, 201})
         => resp.req.calls = 1
    /\ resp.status = 404 => resp.req.calls = 0
====
